---- MODULE Spec2Model ----
(***************************************************************************)
(* A model of the xhooks React hook library (src/unnamed/part_003, the     *)
(* full package, and src/index.js, the reduced package).                   *)
(*                                                                         *)
(* React's part is modelled as the hooks use it:                           *)
(*   - useState keeps a committed state and a queue of pending updates; a  *)
(*     render processes the queue (for plain values the last one wins) and *)
(*     bails out, running no effect, when the state is unchanged           *)
(*     (Object.is);                                                        *)
(*   - useEffect(f, deps) runs f after the first render and after every    *)
(*     render whose deps differ from the previous ones; passive effects    *)
(*     are flushed before any further render starts;                       *)
(*   - the cleanup returned by an effect with deps [] runs at unmount.     *)
(***************************************************************************)
EXTENDS Integers, Sequences, FiniteSets, TLC

VARIABLES
    \* ---- storage hooks (useLocalStorage / useSessionStorage) ----
    store,        \* window.localStorage / window.sessionStorage: scope -> key -> item
    hooks,        \* the hook instances (one per component slot)
    lastWrite,    \* history: per scope and key, the last setItem done by a hook
    lastSet,      \* history: per scope and key, the argument of the last setValue call
    store0,       \* history: the store before any hook was acquired
    calls,        \* number of setValue calls so far
    full,         \* the storage quota is exhausted: setItem throws
    \* ---- useCopyToClipboard ----
    now,          \* the time, in timer ticks
    copy,         \* the hook instance
    timers,       \* the pending setTimeout callbacks, by their firing times
    clipboard,    \* the texts written to navigator.clipboard, in order
    lastCopyAt,   \* history: <<the time of the latest copyToClipboard call>>
    lateUpdates,  \* history: setIsCopied calls made after the instance was released
    \* ---- event hooks (window size, scroll, mouse, media query, dark mode, clicks) ----
    win,          \* window.innerWidth / innerHeight
    scroll,       \* window.scrollX / scrollY
    pointer,      \* where the pointer is
    media,        \* window.matchMedia(query).matches, per query
    listeners,    \* per event source, how many listeners of the instance are registered
    ev,           \* the hook instance
    fired,        \* per callback, how many times the hook invoked it
    events,       \* number of browser events so far
    \* ---- useGeolocation ----
    nav,          \* navigator: [geolocation |-> whether the capability is present]
    geo,          \* the hook instance
    pending,      \* position requests issued and not yet answered
    \* ---- usePrevious ----
    prev,         \* the hook instance
    \* ---- useBoolean and the functions useDarkMode returns ----
    bool          \* the hook instance

storageVars == <<store, hooks, lastWrite, lastSet, store0, calls, full>>

copyVars == <<now, copy, timers, clipboard, lastCopyAt, lateUpdates>>

eventVars == <<win, scroll, pointer, media, listeners, ev, fired, events>>

geoVars == <<nav, geo, pending>>

prevVars == <<prev>>

boolVars == <<bool>>

vars == <<storageVars, copyVars, eventVars, geoVars, prevVars, boolVars>>

-----------------------------------------------------------------------------
(* JavaScript values, as far as the hooks handle them.  A value is a tagged *)
(* record; t is the typeof tag and s the text of the primitive.            *)

Undefined == [t |-> "undefined", s |-> ""]
Null      == [t |-> "null", s |-> ""]
Str(x)    == [t |-> "string", s |-> x]
Num(x)    == [t |-> "number", s |-> x]
Bool(x)   == [t |-> "boolean", s |-> x]

\* The texts the model draws strings and numbers from.
StringPool == {"dark"}
NumberPool == {"0"}

\* Values with a JSON encoding (JSON.stringify returns a string for them).
JSONValues == {Null} \cup {Str(x) : x \in StringPool} \cup {Num(x) : x \in NumberPool}

JSValues == JSONValues \cup {Undefined}

\* What the callers of the model pass as initialValue (omitted: undefined)
\* and as the argument of setValue.
InitialValues == {Undefined, Str("dark")}
SetArgs       == {Undefined, Num("0"), Str("dark")}

IsJSON(v) == v.t # "undefined"

\* Object.is on the primitives above.
ObjectIs(a, b) == a = b


-----------------------------------------------------------------------------
(* JSON at the storage boundary.                                           *)

Quote(x) == "\"" \o x \o "\""

\* JSON.stringify(v): a JS string, or undefined when v is undefined.
JSONStringify(v) ==
    CASE v.t = "string"    -> Str(Quote(v.s))
      [] v.t = "number"    -> Str(v.s)
      [] v.t = "boolean"   -> Str(v.s)
      [] v.t = "null"      -> Str("null")
      [] v.t = "undefined" -> Undefined

\* JSON.parse(text): [threw |-> TRUE] on a SyntaxError, else the value.
JSONParse(text) ==
    IF text = "null" THEN [threw |-> FALSE, value |-> Null]
    ELSE IF text \in {"true", "false"} THEN [threw |-> FALSE, value |-> Bool(text)]
    ELSE IF text \in NumberPool THEN [threw |-> FALSE, value |-> Num(text)]
    ELSE IF \E x \in StringPool : text = Quote(x)
         THEN [threw |-> FALSE, value |-> Str(CHOOSE x \in StringPool : text = Quote(x))]
    ELSE [threw |-> TRUE, value |-> Undefined]

\* String(x), the coercion Storage.setItem applies to its value argument.
StringOf(v) ==
    CASE v.t = "undefined" -> "undefined"
      [] v.t = "null"      -> "null"
      [] OTHER             -> v.s

-----------------------------------------------------------------------------
(* The Web Storage areas.  An item is <<>> (getItem returns null) or <<s>>. *)

Scopes == {"local", "session"}
Keys   == {"theme", "prefs"}

\* The keys the components of the model pass to the hooks.
MountKeys == {"prefs"}

NoItem == <<>>

GetItem(st, scope, key) == st[scope][key]

SetItem(st, scope, key, v) == [st EXCEPT ![scope][key] = <<StringOf(v)>>]

\* JS truthiness of what getItem returned: null and "" are falsy.
Truthy(item) == item # NoItem /\ item[1] # ""

EmptyStore == [sc \in Scopes |-> [k \in Keys |-> NoItem]]


-----------------------------------------------------------------------------
(* useLocalStorage / useSessionStorage                                     *)

otherThanStorage == <<copyVars, eventVars, geoVars, prevVars, boolVars>>

\* The component instances that call a storage hook, in the order in which
\* they are first rendered.
Inst == {"A", "B", "C"}
Earlier(i) == CASE i = "A" -> {} [] i = "B" -> {"A"} [] i = "C" -> {"A", "B"}

StorageHooks == {"useLocalStorage", "useSessionStorage"}

\* Mutant: both hooks use window.localStorage.
StorageOfLocal(hook) == "local"

\* window.localStorage for useLocalStorage, window.sessionStorage for
\* useSessionStorage.
StorageOf(hook) == IF hook = "useLocalStorage" THEN "local" ELSE "session"

MaxCalls  == 2
MaxQueue  == 2

NoHook ==
    [phase |-> "unmounted", hook |-> "useLocalStorage", key |-> "theme",
     initialValue |-> Undefined, value |-> Undefined, queue |-> <<>>,
     effect |-> FALSE, deps |-> <<>>,
     \* history of this instance
     item |-> NoItem, mountEffectDone |-> FALSE,
     seen |-> <<>>, ncalls |-> 0, nchanges |-> 0, nwrites |-> 0,
     first |-> <<>>, ownSet |-> <<>>, rejected |-> <<>>, rekeyedFrom |-> <<>>]

NoWrite == [by |-> "none", kind |-> "none", value |-> Undefined]

\* Mutant: the initializer forgets initialValue when nothing is stored.
InitialStateNoDefault(st, hook, key, initialValue) ==
    LET item == GetItem(st, StorageOf(hook), key)
    IN  IF Truthy(item) THEN JSONParse(item[1])
        ELSE [threw |-> FALSE, value |-> Undefined]

\* The lazy initializer of useState: the stored item decoded, or initialValue.
InitialState(st, hook, key, initialValue) ==
    LET item == GetItem(st, StorageOf(hook), key)
    IN  IF Truthy(item) THEN JSONParse(item[1])
        ELSE [threw |-> FALSE, value |-> initialValue]

\* Mutants: the write effect declared with deps [], with deps [key] or with
\* deps [value, key].
EffectDepsNone(h) == <<>>
EffectDepsKey(h) == <<Str(h.key)>>
EffectDepsValueKey(h) == <<h.value, Str(h.key)>>

\* The dependency list of the write effect: [value].
EffectDeps(h) == <<h.value>>

\* Mutant: the write effect keeps the item a key already has (no overwrite).
WriteEffectKeepFirst(st, h) ==
    IF GetItem(st, StorageOf(h.hook), h.key) # NoItem THEN st
    ELSE SetItem(st, StorageOf(h.hook), h.key, JSONStringify(h.value))

\* Mutant: the value is stored as it is, without JSON.stringify.
WriteEffectRaw(st, h) == SetItem(st, StorageOf(h.hook), h.key, h.value)

\* The body of the write effect: setItem(key, JSON.stringify(value)).
WriteEffect(st, h) == SetItem(st, StorageOf(h.hook), h.key, JSONStringify(h.value))

\* Mutant: the effect wraps setItem in try/catch and drops the error.
WriteOutcomeCaught(st, h, q) ==
    [threw |-> FALSE, store |-> IF q THEN st ELSE WriteEffect(st, h)]

\* The write effect against a store whose quota is exhausted (q): setItem
\* throws a QuotaExceededError before storing anything, and the effect has no
\* try/catch, so the error leaves the effect.
WriteOutcome(st, h, q) ==
    IF q THEN [threw |-> TRUE, store |-> st]
    ELSE [threw |-> FALSE, store |-> WriteEffect(st, h)]

\* Mutant: a re-render reads the stored item again.
RenderedValueReread(st, h) ==
    LET item == GetItem(st, StorageOf(h.hook), h.key)
    IN  IF Truthy(item) /\ ~JSONParse(item[1]).threw THEN JSONParse(item[1]).value
        ELSE h.queue[Len(h.queue)]

\* The state useState returns on a re-render: the queued plain values are
\* applied in order, so the last one is the state; the store is not consulted.
RenderedValue(st, h) == h.queue[Len(h.queue)]

\* React flushes pending passive effects before it renders anything.
NoEffectPending == \A i \in Inst : ~hooks[i].effect

\* A render pass processes the updates queued so far: a component is first
\* rendered no earlier than the updates queued before that pass.
NoUpdateQueued == \A i \in Inst : hooks[i].queue = <<>>

\* First render of a component that calls the hook.
Mount(i, hook, key, iv) ==
    /\ hooks[i].phase = "unmounted"
    /\ \A j \in Earlier(i) : hooks[j].phase # "unmounted"
    /\ NoEffectPending
    /\ NoUpdateQueued
    /\ LET r  == InitialState(store, hook, key, iv)
           sc == StorageOf(hook)
           h0 == [NoHook EXCEPT !.hook = hook, !.key = key, !.initialValue = iv,
                                !.item = GetItem(store, sc, key),
                                !.seen = IF lastWrite[sc][key].kind = "none" THEN <<>>
                                         ELSE <<lastWrite[sc][key].value>>]
       IN  IF r.threw
           THEN hooks' = [hooks EXCEPT ![i] = [h0 EXCEPT !.phase = "crashed"]]
           ELSE LET h1 == [h0 EXCEPT !.phase = "mounted", !.value = r.value,
                                     !.effect = TRUE, !.first = <<r.value>>]
                IN  hooks' = [hooks EXCEPT ![i] = [h1 EXCEPT !.deps = EffectDeps(h1)]]
    /\ UNCHANGED <<store, lastWrite, lastSet, store0, calls, full, otherThanStorage>>

\* The caller invokes the returned setValue(v): React queues the update.
SetValue(i, v) ==
    /\ hooks[i].phase = "mounted"
    /\ calls < MaxCalls
    /\ Len(hooks[i].queue) < MaxQueue
    /\ hooks' = [hooks EXCEPT ![i].queue = Append(@, v), ![i].ncalls = @ + 1,
                              ![i].ownSet = <<v>>]
    /\ lastSet' = [lastSet EXCEPT ![StorageOf(hooks[i].hook)][hooks[i].key] = <<v>>]
    /\ calls' = calls + 1
    /\ UNCHANGED <<store, lastWrite, store0, full, otherThanStorage>>

\* Re-render caused by queued updates: the last queued value becomes the
\* state; an unchanged state bails out and runs no effect.
Render(i) ==
    LET h   == hooks[i]
        new == RenderedValue(store, h)
        sc  == StorageOf(h.hook)
    IN  /\ h.phase = "mounted"
        /\ h.queue # <<>>
        /\ NoEffectPending
        /\ IF ObjectIs(new, h.value)
           THEN hooks' = [hooks EXCEPT ![i].queue = <<>>]
           ELSE LET h1 == [h EXCEPT !.queue = <<>>, !.value = new, !.nchanges = @ + 1]
                IN  hooks' = [hooks EXCEPT ![i] =
                                 [h1 EXCEPT !.effect = (EffectDeps(h1) # h.deps),
                                            !.deps = EffectDeps(h1)]]
        /\ UNCHANGED <<store, lastWrite, lastSet, store0, calls, full, otherThanStorage>>

\* The passive effect of the last render runs.  When setItem throws, the
\* error reaches React, which takes the component down; the state rendered
\* before the effect is not rolled back.
RunEffect(i) ==
    LET h  == hooks[i]
        sc == StorageOf(h.hook)
        r  == WriteOutcome(store, h, full)
    IN  /\ h.phase = "mounted"
        /\ h.effect
        /\ store' = r.store
        /\ IF full
           THEN /\ hooks' = [hooks EXCEPT ![i].effect = FALSE,
                                          ![i].phase = IF r.threw THEN "failed" ELSE @,
                                          ![i].rejected = <<[before |-> store[sc][h.key],
                                                             after |-> r.store[sc][h.key]]>>]
                /\ UNCHANGED lastWrite
           ELSE /\ hooks' = [hooks EXCEPT ![i].effect = FALSE,
                                          ![i].mountEffectDone = TRUE,
                                          ![i].nwrites = IF h.mountEffectDone THEN @ + 1 ELSE @]
                /\ lastWrite' = [lastWrite EXCEPT ![sc][h.key] =
                                    [by |-> i,
                                     kind |-> IF h.mountEffectDone THEN "update" ELSE "mount",
                                     value |-> h.value]]
        /\ UNCHANGED <<lastSet, store0, calls, full, otherThanStorage>>

\* The component is unmounted (or discarded after its render threw); the
\* write effect returns no cleanup, so only the instance goes away.
Unmount(i) ==
    /\ hooks[i].phase \in {"mounted", "crashed", "failed"}
    /\ NoEffectPending
    /\ hooks' = [hooks EXCEPT ![i] = [NoHook EXCEPT !.phase = "released"]]
    \* calls still queued are dropped with the instance: no call counts as the last
    /\ lastSet' = IF hooks[i].queue = <<>> THEN lastSet
                  ELSE [lastSet EXCEPT ![StorageOf(hooks[i].hook)][hooks[i].key] = <<>>]
    /\ UNCHANGED <<store, lastWrite, store0, calls, full, otherThanStorage>>

InitStores ==
    {EmptyStore} \cup
    {[EmptyStore EXCEPT !["local"]["prefs"] = <<"{not json">>],
     [EmptyStore EXCEPT !["session"]["prefs"] = <<"">>]}

\* The event sources the hooks subscribe to, and the media queries used.
DarkQuery == "(prefers-color-scheme: dark)"
Queries   == {"(max-width: 768px)", DarkQuery}
ChangeOf(q) == "change " \o q
Sources   == {"resize", "scroll", "mousemove", "click"} \cup {ChangeOf(q) : q \in Queries}

\* The callbacks components pass to the action hooks.
Callbacks == {"c1", "c2"}

\* No event hook instance exists.
NoEv == [kind |-> "none", phase |-> "unmounted", query |-> "", state |-> <<>>,
         queue |-> <<>>, hasRef |-> FALSE, cb |-> "c1", bound |-> "c1", renders |-> 0,
         \* history of this instance
         first |-> <<>>, atAcq |-> <<>>, lastNote |-> <<>>,
         clicks |-> 0, due |-> 0, again |-> 0, torn |-> FALSE, stale |-> 0]

EventsIdle ==
    /\ win = [innerWidth |-> 800, innerHeight |-> 600]
    /\ scroll = [scrollX |-> 0, scrollY |-> 0]
    /\ pointer = [clientX |-> 400, clientY |-> 300]
    /\ media = [q \in Queries |-> FALSE]
    /\ listeners = [s \in Sources |-> 0]
    /\ ev = NoEv
    /\ fired = [c \in Callbacks |-> 0]
    /\ events = 0

\* No useCopyToClipboard instance exists.
NoCopy == [phase |-> "unmounted", timeout |-> 0, isCopied |-> FALSE, queue |-> <<>>,
           effect |-> FALSE, deps |-> <<>>,
           \* history: the argument passed, and <<the time isCopied became true>>
           arg |-> <<>>, setAt |-> <<>>]

CopyIdle ==
    /\ now = 0
    /\ copy = NoCopy
    /\ timers = <<>>
    /\ clipboard = <<>>
    /\ lastCopyAt = <<>>
    /\ lateUpdates = 0

\* The states useGeolocation sets.  null is written "null".
GeoLoading == [loading |-> TRUE, error |-> "null", data |-> "null"]
GeoUnsupported == [loading |-> FALSE, error |-> "GEOLOCATION_NOT_SUPPORTED", data |-> "null"]
GeoResolved(position) == [loading |-> FALSE, error |-> "null", data |-> position]
GeoRejected(error) == [loading |-> FALSE, error |-> error, data |-> "null"]

\* No useGeolocation instance exists.
NoGeo == [phase |-> "unmounted", state |-> GeoLoading, queue |-> <<>>, effect |-> FALSE,
          deps |-> <<>>, renders |-> 0,
          \* history of this instance
          effectDone |-> FALSE, requests |-> 0, settled |-> FALSE, late |-> 0]

GeoIdle ==
    /\ nav = [geolocation |-> TRUE]
    /\ geo = NoGeo
    /\ pending = 0

\* No usePrevious instance exists.
NoPrev == [phase |-> "unmounted", arg |-> Undefined, ref |-> Undefined,
           returned |-> Undefined, deps |-> <<>>, effect |-> FALSE,
           \* history: the arguments of the renders so far
           args |-> <<>>]

PrevIdle == prev = NoPrev

\* No useBoolean or useDarkMode instance exists.
NoBool == [kind |-> "none", phase |-> "unmounted", arg |-> <<>>, value |-> FALSE,
           queue |-> <<>>, effect |-> FALSE,
           \* history of this instance
           expected |-> FALSE, nops |-> 0, read |-> <<>>]

BoolIdle == bool = NoBool

StorageIdle ==
    /\ store = EmptyStore
    /\ store0 = store
    /\ hooks = [i \in Inst |-> NoHook]
    /\ lastWrite = [sc \in Scopes |-> [k \in Keys |-> NoWrite]]
    /\ lastSet = [sc \in Scopes |-> [k \in Keys |-> <<>>]]
    /\ calls = 0
    /\ full = FALSE

Init ==
    /\ CopyIdle
    /\ EventsIdle
    /\ GeoIdle
    /\ PrevIdle
    /\ BoolIdle
    /\ store \in InitStores
    /\ store0 = store
    /\ hooks = [i \in Inst |-> NoHook]
    /\ lastWrite = [sc \in Scopes |-> [k \in Keys |-> NoWrite]]
    /\ lastSet = [sc \in Scopes |-> [k \in Keys |-> <<>>]]
    /\ calls = 0
    /\ full = FALSE

Next ==
    \/ \E i \in Inst, hook \in StorageHooks, key \in MountKeys, iv \in InitialValues :
          Mount(i, hook, key, iv)
    \/ \E i \in Inst, v \in SetArgs : SetValue(i, v)
    \/ \E i \in Inst : Render(i)
    \/ \E i \in Inst : RunEffect(i)
    \/ \E i \in Inst : Unmount(i)

Spec == Init /\ [][Next]_vars

-----------------------------------------------------------------------------
(* The storage hooks of components that change the key between renders.    *)

\* The parent re-renders the component, which now passes another key: the
\* useState initializer is not run again and the effect, declared with deps
\* [value], runs only if its deps changed.
Rekey(i, key) ==
    LET h  == hooks[i]
        h1 == [h EXCEPT !.key = key, !.rekeyedFrom = <<h.key>>]
    IN  /\ h.phase = "mounted"
        /\ h.queue = <<>>
        /\ NoEffectPending
        /\ key # h.key
        /\ hooks' = [hooks EXCEPT ![i] =
                         [h1 EXCEPT !.effect = (EffectDeps(h1) # h.deps),
                                    !.deps = EffectDeps(h1)]]
        /\ UNCHANGED <<store, lastWrite, lastSet, store0, calls, full, otherThanStorage>>

\* The component instances of this specification and the hook they call.
RekeyInst == {"A", "B"}
RekeyHooks == {"useLocalStorage"}

InitRekey == StorageIdle /\ CopyIdle /\ EventsIdle /\ GeoIdle /\ PrevIdle /\ BoolIdle

NextRekey ==
    \/ \E i \in RekeyInst, hook \in RekeyHooks, key \in MountKeys, iv \in InitialValues :
          Mount(i, hook, key, iv)
    \/ \E i \in RekeyInst, v \in SetArgs : SetValue(i, v)
    \/ \E i \in RekeyInst : Render(i)
    \/ \E i \in RekeyInst : RunEffect(i)
    \/ \E i \in RekeyInst : Unmount(i)
    \/ \E i \in RekeyInst, key \in Keys : Rekey(i, key)

SpecRekey == InitRekey /\ [][NextRekey]_vars

-----------------------------------------------------------------------------
(* The storage hooks in a browser that interferes: another tab or script   *)
(* changes the items, and the quota of the storage areas runs out.         *)

\* The component instances of this specification, the hook they call and
\* the storage area that is interfered with.
EnvInst == {"A", "B"}
EnvHooks == {"useLocalStorage"}
EnvScopes == {"local"}

\* What another tab leaves under a key.
ExternalItems == {<<"0">>}

\* The last change of the key was not made by a hook.
ExternalWriteRecord == [by |-> "external", kind |-> "external", value |-> Undefined]

\* Another tab or script sets or removes the item of a key.  The hooks
\* register no "storage" listener, so no instance is told.
ExternalWrite(sc, k, item) ==
    /\ store[sc][k] # item
    /\ store' = [store EXCEPT ![sc][k] = item]
    /\ lastWrite' = [lastWrite EXCEPT ![sc][k] = ExternalWriteRecord]
    /\ UNCHANGED <<hooks, lastSet, store0, calls, full, otherThanStorage>>

\* The quota of the storage areas runs out (b = TRUE) or space is freed.
Quota(b) ==
    /\ full # b
    /\ full' = b
    /\ UNCHANGED <<store, hooks, lastWrite, lastSet, store0, calls, otherThanStorage>>

InitEnv == StorageIdle /\ CopyIdle /\ EventsIdle /\ GeoIdle /\ PrevIdle /\ BoolIdle

NextEnv ==
    \/ \E i \in EnvInst, hook \in EnvHooks, key \in MountKeys, iv \in InitialValues :
          Mount(i, hook, key, iv)
    \/ \E i \in EnvInst, v \in SetArgs : SetValue(i, v)
    \/ \E i \in EnvInst : Render(i)
    \/ \E i \in EnvInst : RunEffect(i)
    \/ \E i \in EnvInst : Unmount(i)
    \/ \E sc \in EnvScopes, k \in MountKeys, item \in ExternalItems :
          ExternalWrite(sc, k, item)
    \/ \E b \in BOOLEAN : Quota(b)

SpecEnv == InitEnv /\ [][NextEnv]_vars

-----------------------------------------------------------------------------
(* Properties of the storage hooks                                         *)

CellOf(i) == store[StorageOf(hooks[i].hook)][hooks[i].key]
LastWriteOf(i) == lastWrite[StorageOf(hooks[i].hook)][hooks[i].key]
LastSetOf(i) == lastSet[StorageOf(hooks[i].hook)][hooks[i].key]

\* Nothing is queued and no effect is pending: every update cycle is complete.
Quiescent == \A i \in Inst : hooks[i].queue = <<>> /\ ~hooks[i].effect

\* The instance has just been acquired: its first render is done and its
\* mount effect has not run yet (so nothing was rendered or written since).
JustAcquired(i) == hooks[i].phase = "mounted" /\ ~hooks[i].mountEffectDone

\* The item decodes to the value v.
DecodesTo(item, v) ==
    /\ Truthy(item)
    /\ ~JSONParse(item[1]).threw
    /\ JSONParse(item[1]).value = v

\* C1 as stated: when the last setValue call on a key was setValue(v), v
\* JSON-serializable, and every call has been rendered and committed, an
\* instance acquired next with that key starts with v.
C1_RoundTripAfterSetValue ==
    \A i \in Inst :
        (JustAcquired(i) /\ LastSetOf(i) # <<>> /\ IsJSON(LastSetOf(i)[1])
            /\ \A j \in Inst : hooks[j].queue = <<>> /\ (hooks[j].effect => j = i))
            => hooks[i].value = LastSetOf(i)[1]

\* C1 amended: once a write effect has stored a JSON-serializable value v
\* under a key, an instance acquired with that key before any other write
\* effect on it does not throw and starts with a value equal to v.
C1_RoundTripAfterWrite ==
    \A i \in Inst :
        (hooks[i].phase \in {"mounted", "crashed"} /\ hooks[i].seen # <<>>
            /\ IsJSON(hooks[i].seen[1]))
            => /\ hooks[i].phase = "mounted"
               /\ hooks[i].nchanges = 0 => hooks[i].value = hooks[i].seen[1]

C1_Witness ==
    \E i \in Inst :
        /\ JustAcquired(i)
        /\ hooks[i].seen = <<Num("0")>>
        /\ hooks[i].value = Num("0")
        /\ hooks[i].initialValue = Str("dark")

\* C2 as stated: a key that held nothing before the hooks ran holds nothing
\* as long as setValue has not been called.
C2_NoWriteBeforeSetValue ==
    \A sc \in Scopes, k \in Keys :
        (store0[sc][k] = NoItem /\ calls = 0) => store[sc][k] = NoItem

\* C2 amended: an instance acquired on a key that holds nothing starts with
\* initialValue; nothing is written before its mount effect runs, and the
\* mount effect writes the encoding of initialValue without any setValue.
C2_MountEffectWritesInitialValue ==
    \A i \in Inst :
        (hooks[i].phase = "mounted" /\ hooks[i].item = NoItem)
            => /\ hooks[i].nchanges = 0 => hooks[i].value = hooks[i].initialValue
               /\ ~hooks[i].mountEffectDone => CellOf(i) = NoItem
               /\ (hooks[i].mountEffectDone /\ LastWriteOf(i).by = i
                        /\ LastWriteOf(i).kind = "mount")
                    => CellOf(i) = <<StringOf(JSONStringify(hooks[i].initialValue))>>

C2_Witness ==
    \E i \in Inst :
        /\ hooks[i].phase = "mounted"
        /\ hooks[i].item = NoItem
        /\ hooks[i].mountEffectDone
        /\ calls = 0
        /\ hooks[i].initialValue = Str("dark")
        /\ CellOf(i) = <<Quote("dark")>>

\* C3 as stated: an instance acquired on a key whose item is not valid JSON
\* does not throw and starts with initialValue.
C3_CorruptedEntryFallsBack ==
    \A i \in Inst :
        (hooks[i].phase \in {"mounted", "crashed"} /\ Truthy(hooks[i].item)
            /\ JSONParse(hooks[i].item[1]).threw)
            => /\ hooks[i].phase = "mounted"
               /\ hooks[i].nchanges = 0 => hooks[i].value = hooks[i].initialValue

\* C7 as stated: in a quiescent state the item of a key decodes to the value
\* of every mounted instance of that key on which setValue was called.
C7_StoreDecodesToEveryValue ==
    Quiescent =>
        \A i \in Inst :
            (hooks[i].phase = "mounted" /\ hooks[i].ncalls > 0 /\ IsJSON(hooks[i].value))
                => DecodesTo(CellOf(i), hooks[i].value)

\* C7 amended: in a quiescent state the item of a key is the encoding of the
\* value of the instance whose write effect ran last on that key, while that
\* instance is mounted; it decodes to that value when it is JSON-serializable.
C7_StoreIsLastWritersValue ==
    Quiescent =>
        \A i \in Inst :
            (hooks[i].phase = "mounted" /\ LastWriteOf(i).by = i)
                => /\ CellOf(i) = <<StringOf(JSONStringify(hooks[i].value))>>
                   /\ IsJSON(hooks[i].value) => DecodesTo(CellOf(i), hooks[i].value)

C7_Witness ==
    /\ Quiescent
    /\ \E i, j \in Inst :
          /\ i # j
          /\ hooks[i].phase = "mounted" /\ hooks[j].phase = "mounted"
          /\ hooks[i].hook = hooks[j].hook /\ hooks[i].key = hooks[j].key
          /\ hooks[i].nchanges > 0
          /\ LastWriteOf(i).by = i
          /\ IsJSON(hooks[i].value)
          /\ hooks[j].value # hooks[i].value

\* C8 as stated: in a quiescent state every instance has written the store
\* once per setValue call made on it.
C8_OneWritePerCall ==
    Quiescent =>
        \A i \in Inst : hooks[i].phase = "mounted" => hooks[i].nwrites = hooks[i].ncalls

\* C8 amended: the writes caused by setValue are one per render that changed
\* the value: a call with the current value causes none, and the calls
\* made before one render cause at most one.
C8_OneWritePerChange ==
    \A i \in Inst :
        hooks[i].phase = "mounted"
            => /\ hooks[i].nwrites =
                    hooks[i].nchanges
                        - (IF hooks[i].effect /\ hooks[i].mountEffectDone THEN 1 ELSE 0)
               /\ hooks[i].nchanges + Len(hooks[i].queue) <= hooks[i].ncalls

C8_Witness ==
    /\ Quiescent
    /\ \E i \in Inst :
          /\ hooks[i].phase = "mounted"
          /\ hooks[i].ncalls = 2
          /\ hooks[i].nwrites = 1

\* C11: whatever the interleaving of mounts and setValue calls of the
\* instances sharing a key, the item of the key is exactly the encoding of
\* the value written by the write effect that ran last on it: the values
\* are not merged and no earlier write survives a later one.
C11_LastWriteWins ==
    \A sc \in Scopes, k \in Keys :
        lastWrite[sc][k].kind # "none"
            => store[sc][k] = <<StringOf(JSONStringify(lastWrite[sc][k].value))>>

C11_Witness ==
    \E i, j \in Inst :
        /\ i # j
        /\ hooks[i].phase = "mounted" /\ hooks[j].phase = "mounted"
        /\ hooks[i].hook = hooks[j].hook /\ hooks[i].key = hooks[j].key
        /\ hooks[i].nwrites > 0 /\ hooks[j].nwrites > 0
        /\ LastWriteOf(j).by = j
        /\ hooks[i].value = Str("dark") /\ hooks[j].value = Num("0")
        /\ CellOf(j) = <<"0">>

\* The value an instance read at acquisition: the stored item decoded, or
\* initialValue when nothing (or "") was stored.
InitialRead(h) ==
    IF Truthy(h.item) THEN JSONParse(h.item[1]).value ELSE h.initialValue

\* C12: the value an instance returns, once its setValue calls are rendered,
\* is the value it read at acquisition (stored item or initialValue) as long
\* as setValue was not called on it, and the argument of its own latest
\* setValue call afterwards; writes of another instance to the key and
\* changes of the item from outside do not change it.
C12_ReadsStoreOnce ==
    \A i \in Inst :
        (hooks[i].phase = "mounted" /\ hooks[i].queue = <<>>)
            => /\ hooks[i].first = <<InitialRead(hooks[i])>>
               /\ hooks[i].value = IF hooks[i].ownSet = <<>> THEN hooks[i].first[1]
                                    ELSE hooks[i].ownSet[1]

C12_Witness ==
    \E i, j \in Inst :
        /\ i # j
        /\ Quiescent
        /\ hooks[i].phase = "mounted" /\ hooks[i].mountEffectDone
        /\ hooks[i].ownSet = <<>>
        /\ hooks[i].value = Str("dark")
        /\ hooks[j].phase = "mounted" /\ hooks[j].nwrites > 0
        /\ hooks[j].hook = hooks[i].hook /\ hooks[j].key = hooks[i].key
        /\ LastWriteOf(i).by = "external"
        /\ CellOf(i) = <<"0">>

\* C13: when the store rejects the write of the effect, the error leaves the
\* hook (React takes the component down), the item of the key is what it
\* was before, and the value rendered before the effect, the argument of
\* setValue, is still the instance's value.
C13_RejectedWriteDiverges ==
    \A i \in Inst :
        hooks[i].rejected # <<>>
            => /\ hooks[i].phase = "failed"
               /\ hooks[i].rejected[1].after = hooks[i].rejected[1].before
               /\ (hooks[i].queue = <<>> /\ hooks[i].ownSet # <<>>)
                    => hooks[i].value = hooks[i].ownSet[1]

C13_Witness ==
    \E i \in Inst :
        /\ hooks[i].phase = "failed"
        /\ hooks[i].mountEffectDone
        /\ hooks[i].queue = <<>>
        /\ hooks[i].ownSet = <<Num("0")>>
        /\ hooks[i].value = Num("0")
        /\ hooks[i].rejected = <<[before |-> <<Quote("dark")>>, after |-> <<Quote("dark")>>]>>
        /\ CellOf(i) = <<Quote("dark")>>

\* C23: a re-render of a mounted instance with another key, its value being
\* unchanged, leaves the value as it is (the item of the new key is not
\* read), changes no item of the store, and schedules no write effect.
C23_NoMigrationOnKeyChange ==
    [][\A i \in Inst :
          (hooks[i].phase = "mounted" /\ hooks'[i].phase = "mounted"
                /\ hooks'[i].key # hooks[i].key)
             => /\ hooks'[i].value = hooks[i].value
                /\ store' = store
                /\ ~hooks'[i].effect]_vars

C23_Witness ==
    \E i \in Inst :
        /\ Quiescent
        /\ hooks[i].phase = "mounted"
        /\ hooks[i].rekeyedFrom = <<"prefs">>
        /\ hooks[i].key = "theme"
        /\ hooks[i].nchanges = 0
        /\ hooks[i].value = Str("dark")
        /\ CellOf(i) = <<"0">>
        /\ store[StorageOf(hooks[i].hook)]["prefs"] = <<Quote("dark")>>

\* C26 as stated: an acquisition on a key whose item was written by a storage
\* hook does not throw; when the value written was undefined, it yields
\* undefined or its own initialValue.
C26_WrittenItemsDecode ==
    \A i \in Inst :
        (hooks[i].phase \in {"mounted", "crashed"} /\ hooks[i].seen # <<>>)
            => /\ hooks[i].phase = "mounted"
               /\ (hooks[i].seen[1] = Undefined /\ hooks[i].nchanges = 0)
                    => hooks[i].value \in {Undefined, hooks[i].initialValue}

\* The storage area a hook is documented to use.
OwnScope(hook) == IF hook = "useSessionStorage" THEN "session" ELSE "local"

\* C17: the two storage areas are independent namespaces: an area changes
\* only when the write effect of an instance of its own hook runs, and an
\* instance is acquired with what its own area holds under the key (or with
\* initialValue), whatever the other area holds under the same key.
C17_ScopesIndependent ==
    [][/\ \A sc \in Scopes :
            store'[sc] # store[sc]
                => \E i \in Inst : /\ hooks[i].effect /\ ~hooks'[i].effect
                                   /\ OwnScope(hooks[i].hook) = sc
       /\ \A i \in Inst :
            (hooks[i].phase = "unmounted" /\ hooks'[i].phase = "mounted")
                => LET item == store[OwnScope(hooks'[i].hook)][hooks'[i].key]
                   IN  hooks'[i].value = IF Truthy(item) THEN JSONParse(item[1]).value
                                         ELSE hooks'[i].initialValue]_vars

C17_Witness ==
    \E i, j \in Inst :
        /\ hooks[i].phase = "mounted" /\ hooks[i].hook = "useLocalStorage"
        /\ hooks[j].hook = "useSessionStorage" /\ JustAcquired(j)
        /\ hooks[i].key = hooks[j].key
        /\ LastWriteOf(i).by = i /\ hooks[i].value = Num("0")
        /\ store["local"][hooks[i].key] = <<"0">>
        /\ store["session"][hooks[j].key] = <<Quote("dark")>>
        /\ hooks[j].item = <<Quote("dark")>>
        /\ hooks[j].value = Str("dark")
        /\ hooks[j].initialValue = Undefined

-----------------------------------------------------------------------------
(* useCopyToClipboard(timeout)                                             *)
(* Time advances only when React is idle and no timer is due: renders and  *)
(* effects take no time and a timer fires at its firing time.              *)

otherThanCopy == <<storageVars, eventVars, geoVars, prevVars, boolVars>>

MaxTime   == 6
MaxCopies == 3

\* A tick of the model's clock in milliseconds, the default of the timeout
\* parameter in the code (timeout = 2000) and the default its documentation
\* states, in milliseconds.
TickMs == 500
DefaultTimeoutMs == 2000
DocumentedTimeoutMs == 1500

\* The timeout arguments the components of the model pass, in ticks.
CopyTimeouts == {2, 3}

\* What a component passes to useCopyToClipboard: <<>> when the argument is
\* omitted.
CopyArgs == {<<>>} \cup {<<timeout>> : timeout \in CopyTimeouts}

\* The timeout parameter with its default, in ticks.
Timeout(arg) == IF arg = <<>> THEN DefaultTimeoutMs \div TickMs ELSE arg[1]

\* The texts the model copies.
CopyTexts == {"x", "y"}

\* Remove the k-th element of a sequence.
RemoveAt(s, k) == [n \in 1..(Len(s) - 1) |-> IF n < k THEN s[n] ELSE s[n + 1]]

\* The dependency list of the reset effect: [isCopied].
CopyEffectDeps(c) == <<c.isCopied>>

\* The body of the reset effect: if (isCopied) setTimeout(reset, timeout).
\* It returns no cleanup.
CopyEffect(c, tm, t) == IF c.isCopied THEN Append(tm, t + c.timeout) ELSE tm

CopyReactIdle == copy.queue = <<>> /\ ~copy.effect

NoTimerDue == \A k \in 1..Len(timers) : timers[k] > now

\* First render of a component that calls useCopyToClipboard(timeout) or
\* useCopyToClipboard().
MountCopy(arg) ==
    /\ copy.phase = "unmounted"
    /\ LET c == [NoCopy EXCEPT !.phase = "mounted", !.timeout = Timeout(arg),
                               !.arg = arg, !.effect = TRUE]
       IN  copy' = [c EXCEPT !.deps = CopyEffectDeps(c)]
    /\ UNCHANGED <<now, timers, clipboard, lastCopyAt, lateUpdates, otherThanCopy>>

\* The caller invokes copyToClipboard(text).  A timer that is due has fired
\* before an event of the same tick is handled.
CopyToClipboard(text) ==
    /\ copy.phase = "mounted"
    /\ NoTimerDue
    /\ Len(clipboard) < MaxCopies
    /\ clipboard' = Append(clipboard, text)
    /\ copy' = [copy EXCEPT !.queue = Append(@, TRUE)]
    /\ lastCopyAt' = <<now>>
    /\ UNCHANGED <<now, timers, lateUpdates, otherThanCopy>>

\* Re-render caused by queued setIsCopied calls.
RenderCopy ==
    LET new == copy.queue[Len(copy.queue)]
    IN  /\ copy.phase = "mounted"
        /\ copy.queue # <<>>
        /\ ~copy.effect
        /\ IF new = copy.isCopied
           THEN copy' = [copy EXCEPT !.queue = <<>>]
           ELSE LET c == [copy EXCEPT !.queue = <<>>, !.isCopied = new,
                                      !.setAt = IF new THEN <<now>> ELSE <<>>]
                IN  copy' = [c EXCEPT !.effect = (CopyEffectDeps(c) # copy.deps),
                                      !.deps = CopyEffectDeps(c)]
        /\ UNCHANGED <<now, timers, clipboard, lastCopyAt, lateUpdates, otherThanCopy>>

\* The passive effect of the last render runs.
RunCopyEffect ==
    /\ copy.phase = "mounted"
    /\ copy.effect
    /\ timers' = CopyEffect(copy, timers, now)
    /\ copy' = [copy EXCEPT !.effect = FALSE]
    /\ UNCHANGED <<now, clipboard, lastCopyAt, lateUpdates, otherThanCopy>>

\* A due timer fires: () => setIsCopied(false).  On a released instance
\* React drops the update.
FireTimer(k) ==
    /\ k \in 1..Len(timers)
    /\ timers[k] <= now
    /\ timers' = RemoveAt(timers, k)
    /\ IF copy.phase = "mounted"
       THEN copy' = [copy EXCEPT !.queue = Append(@, FALSE)] /\ UNCHANGED lateUpdates
       ELSE lateUpdates' = lateUpdates + 1 /\ UNCHANGED copy
    /\ UNCHANGED <<now, clipboard, lastCopyAt, otherThanCopy>>

\* The component is unmounted: the effect returned no cleanup.
UnmountCopy ==
    /\ copy.phase = "mounted"
    /\ ~copy.effect
    /\ copy' = [NoCopy EXCEPT !.phase = "released"]
    /\ UNCHANGED <<now, timers, clipboard, lastCopyAt, lateUpdates, otherThanCopy>>

Tick ==
    /\ now < MaxTime
    /\ CopyReactIdle
    /\ NoTimerDue
    /\ now' = now + 1
    /\ UNCHANGED <<copy, timers, clipboard, lastCopyAt, lateUpdates, otherThanCopy>>

InitCopy == CopyIdle /\ StorageIdle /\ EventsIdle /\ GeoIdle /\ PrevIdle /\ BoolIdle

NextCopy ==
    \/ \E arg \in CopyArgs : MountCopy(arg)
    \/ \E text \in CopyTexts : CopyToClipboard(text)
    \/ RenderCopy
    \/ RunCopyEffect
    \/ \E k \in 1..MaxCopies : FireTimer(k)
    \/ UnmountCopy
    \/ Tick

SpecCopy == InitCopy /\ [][NextCopy]_vars

\* React renders queued updates and flushes effects, due timers fire, and
\* time passes.  Nothing obliges the caller to copy or the parent to unmount.
FairCopy ==
    /\ WF_vars(RenderCopy)
    /\ WF_vars(RunCopyEffect)
    /\ WF_vars(\E k \in 1..MaxCopies : FireTimer(k))
    /\ WF_vars(Tick)

SpecCopyFair == SpecCopy /\ FairCopy

-----------------------------------------------------------------------------
(* Properties of useCopyToClipboard                                        *)

\* C4 as stated: whenever React is idle and no timer is due, isCopied is true
\* exactly during the timeout that follows the latest copyToClipboard call.
C4_ResetTimeoutAfterLatestCopy ==
    (copy.phase = "mounted" /\ lastCopyAt # <<>> /\ CopyReactIdle /\ NoTimerDue)
        => (copy.isCopied <=> now < lastCopyAt[1] + copy.timeout)

\* C6 as stated: a released instance has no pending timer, and no state
\* update is attempted on it.
C6_NothingPendingAfterRelease ==
    copy.phase = "released" => (timers = <<>> /\ lateUpdates = 0)

\* The clock of the model has stopped before a pending reset is due.
ClockStopped == now = MaxTime /\ \E k \in 1..Len(timers) : timers[k] > now

\* C16 as stated (the reset): whenever isCopied is true on a mounted
\* instance, it is false again later, whatever copy calls are made meanwhile.
C16_EventuallyReset ==
    (copy.phase = "mounted" /\ copy.isCopied)
        ~> (~copy.isCopied \/ copy.phase # "mounted" \/ ClockStopped)

\* C24 as stated: with the timeout argument omitted, isCopied is reset
\* 1500 ms after the copy that set it: while it is still true after a single
\* copy, fewer than 1500 ms have passed since that copy.
C24_DefaultResetAfter1500ms ==
    (copy.phase = "mounted" /\ copy.arg = <<>> /\ Len(clipboard) = 1
        /\ CopyReactIdle /\ NoTimerDue /\ copy.isCopied /\ copy.setAt # <<>>)
        => now * TickMs < copy.setAt[1] * TickMs + DocumentedTimeoutMs

\* C25 as stated: a mounted instance has at most one reset timer pending,
\* and one is pending whenever isCopied is true and React is idle.
C25_NoStackedResets ==
    copy.phase = "mounted"
        => /\ Len(timers) <= 1
           /\ (copy.isCopied /\ CopyReactIdle) => timers # <<>>

-----------------------------------------------------------------------------
(* The event hooks: useWindowSize, useWindowScroll, useMousePosition,      *)
(* useMediaQuery, useDarkMode (state hooks) and useClickAnywhere,          *)
(* useClickAway, useWindowResize (action hooks).  One instance is          *)
(* followed from its first render to its release.                          *)

otherThanEvents == <<storageVars, copyVars, geoVars, prevVars, boolVars>>

MaxEvents  == 3
MaxRenders == 2

StateHooks  == {"useWindowSize", "useWindowScroll", "useMousePosition", "useMediaQuery",
                "useDarkMode"}
ActionHooks == {"useClickAnywhere", "useClickAway", "useWindowResize"}
EventHooks  == StateHooks \cup ActionHooks

\* The hooks whose effect registers a listener (useDarkMode registers none).
ListenerHooks == EventHooks \ {"useDarkMode"}

\* What the browser can report.
WinSizes  == {[innerWidth |-> 800, innerHeight |-> 600],
              [innerWidth |-> 1024, innerHeight |-> 768]}
Scrolls   == {[scrollX |-> 0, scrollY |-> 0], [scrollX |-> 0, scrollY |-> 100]}
Pointers  == {[clientX |-> 10, clientY |-> 20], [clientX |-> 400, clientY |-> 300]}
ClickTargets == {"inside", "outside"}

\* The argument of useState in each state hook: the state of the first render.
InitialSnapshot(kind) ==
    CASE kind = "useWindowSize"    -> [width |-> win.innerWidth, height |-> win.innerHeight]
      [] kind = "useWindowScroll"  -> [scrollX |-> scroll.scrollX, scrollY |-> scroll.scrollY]
      [] kind = "useMousePosition" -> [x |-> win.innerWidth \div 2,
                                       y |-> win.innerHeight \div 2]
      [] kind = "useMediaQuery"    -> FALSE
      [] kind = "useDarkMode"      -> FALSE
      [] OTHER                     -> <<>>

\* History: what the hook's source shows, in the shape of the hook's state.
SourceValue(kind, query, w, s, p, m) ==
    CASE kind = "useWindowSize"    -> [width |-> w.innerWidth, height |-> w.innerHeight]
      [] kind = "useWindowScroll"  -> [scrollX |-> s.scrollX, scrollY |-> s.scrollY]
      [] kind = "useMousePosition" -> [x |-> p.clientX, y |-> p.clientY]
      [] kind = "useMediaQuery"    -> m[query]
      [] kind = "useDarkMode"      -> m[DarkQuery]
      [] OTHER                     -> <<>>

\* The event source the hook's effect subscribes to.
SourceOf(kind, query) ==
    CASE kind \in {"useWindowSize", "useWindowResize"} -> "resize"
      [] kind = "useWindowScroll"                       -> "scroll"
      [] kind = "useMousePosition"                      -> "mousemove"
      [] kind \in {"useClickAnywhere", "useClickAway"}  -> "click"
      [] kind = "useMediaQuery"                         -> ChangeOf(query)
      [] OTHER                                          -> "none"

\* Mutant: removing a listener takes one off the count, registered or not.
RemoveListenerStrict(ls, src) == [ls EXCEPT ![src] = @ - 1]

\* addEventListener / removeEventListener of the instance's handler;
\* removing a handler that is not registered does nothing.
AddListener(ls, src) == [ls EXCEPT ![src] = @ + 1]
RemoveListener(ls, src) == [ls EXCEPT ![src] = IF @ > 0 THEN @ - 1 ELSE 0]

\* The listener registration of the mount effect (deps []).
Subscribe(e, ls) ==
    IF e.kind \in ListenerHooks THEN AddListener(ls, SourceOf(e.kind, e.query)) ELSE ls

\* Mutant: the cleanup removes nothing (it passes a handler that was never added).
CleanupKeeps(e, ls) == ls

\* The cleanup the mount effect returns.
Cleanup(e, ls) ==
    IF e.kind \in ListenerHooks THEN RemoveListener(ls, SourceOf(e.kind, e.query)) ELSE ls

\* The state updates the mount effect itself makes.
EffectUpdates(e) ==
    CASE e.kind = "useMediaQuery" -> <<media[e.query]>>
      [] e.kind = "useDarkMode"   -> <<media[DarkQuery]>>
      [] OTHER                    -> <<>>

\* The state a handler of a state hook sets when its event is dispatched,
\* with the browser values w, s, p, m of that moment.
HandlerUpdate(e, w, s, p, m) == SourceValue(e.kind, e.query, w, s, p, m)

\* Mutant: the click-away handler does not look at the target.
ClickAwayFiresAlways(hasRef, target) == TRUE

\* The test of the click-away handler:
\* ref.current && !ref.current.contains(e.target).
ClickAwayFires(hasRef, target) == hasRef /\ target # "inside"

\* Mutant: the handler calls the callback of the latest render.
HandlerCallbackLatest(e) == e.cb

\* The callback the registered handler calls: the one its closure captured,
\* that of the render whose effect registered the handler.
HandlerCallback(e) == e.bound

\* n copies of v.
Copies(v, n) == [k \in 1..n |-> v]

\* First render of a component that calls the hook: useMediaQuery(query),
\* useClickAway(ref, cb), useClickAnywhere(cb), useWindowResize(cb); the other
\* hooks take no argument.
Acquire(kind, query, hasRef, cb) ==
    /\ ev.phase = "unmounted"
    /\ kind # "useMediaQuery" => query = DarkQuery
    /\ kind # "useClickAway" => ~hasRef
    /\ kind \notin ActionHooks => cb = "c1"
    /\ ev' = [NoEv EXCEPT !.kind = kind, !.phase = "rendered", !.query = query,
                          !.state = InitialSnapshot(kind), !.hasRef = hasRef,
                          !.cb = cb, !.bound = cb,
                          !.first = <<InitialSnapshot(kind)>>,
                          !.atAcq = <<SourceValue(kind, query, win, scroll, pointer, media)>>]
    /\ UNCHANGED <<win, scroll, pointer, media, listeners, fired, events, otherThanEvents>>

\* The mount effect runs.
MountEffect ==
    /\ ev.phase = "rendered"
    /\ listeners' = Subscribe(ev, listeners)
    /\ ev' = [ev EXCEPT !.phase = "mounted", !.queue = @ \o EffectUpdates(ev)]
    /\ UNCHANGED <<win, scroll, pointer, media, fired, events, otherThanEvents>>

\* Re-render caused by queued state updates.
RenderEv ==
    /\ ev.phase = "mounted"
    /\ ev.queue # <<>>
    /\ ev' = [ev EXCEPT !.state = ev.queue[Len(ev.queue)], !.queue = <<>>]
    /\ UNCHANGED <<win, scroll, pointer, media, listeners, fired, events, otherThanEvents>>

\* The parent re-renders the component, passing callback cb: the effects,
\* declared with deps [], do not run again.
Rerender(cb) ==
    /\ ev.phase = "mounted"
    /\ ev.renders < MaxRenders
    /\ ev.kind \notin ActionHooks => cb = "c1"
    /\ ev' = [ev EXCEPT !.renders = @ + 1, !.cb = cb]
    /\ UNCHANGED <<win, scroll, pointer, media, listeners, fired, events, otherThanEvents>>

\* The component is unmounted: the cleanup of the mount effect runs.
Release ==
    /\ ev.phase = "mounted"
    /\ listeners' = Cleanup(ev, listeners)
    /\ ev' = [ev EXCEPT !.phase = "released", !.queue = <<>>]
    /\ UNCHANGED <<win, scroll, pointer, media, fired, events, otherThanEvents>>

\* The browser dispatches an event of source src, the browser being in
\* w, s, p, m: every registered listener of the instance runs once.
Dispatch(src, w, s, p, m, target) ==
    LET n     == listeners[src]
        watch == ev.phase \in {"rendered", "mounted"} /\ ev.kind \in StateHooks
                    /\ ev.kind # "useDarkMode" /\ SourceOf(ev.kind, ev.query) = src
        note  == IF watch THEN <<SourceValue(ev.kind, ev.query, w, s, p, m)>>
                 ELSE ev.lastNote
        calls_ == IF ev.kind = "useClickAway"
                  THEN (IF ClickAwayFires(ev.hasRef, target) THEN n ELSE 0)
                  ELSE n
        \* history: a click while the instance is mounted, and whether the
        \* callback is due for it
        click == src = "click" /\ ev.phase = "mounted"
        owed  == click /\ (ev.kind = "useClickAnywhere"
                              \/ (ev.kind = "useClickAway" /\ ev.hasRef /\ target = "outside"))
    IN  IF ev.kind \in StateHooks
        THEN /\ ev' = [ev EXCEPT !.queue = @ \o Copies(HandlerUpdate(ev, w, s, p, m), n),
                                 !.lastNote = note]
             /\ UNCHANGED fired
        ELSE /\ fired' = [fired EXCEPT ![HandlerCallback(ev)] = @ + calls_]
             /\ ev' = [ev EXCEPT !.clicks = IF click THEN @ + 1 ELSE @,
                                 !.due = IF owed THEN @ + 1 ELSE @,
                                 \* history: calls made after another callback was passed
                                 !.stale = IF ev.cb # ev.bound THEN @ + calls_ ELSE @]

Resize(w) ==
    /\ events < MaxEvents
    /\ w # win
    /\ win' = w
    /\ Dispatch("resize", w, scroll, pointer, media, "none")
    /\ events' = events + 1
    /\ UNCHANGED <<scroll, pointer, media, listeners, otherThanEvents>>

Scroll(s) ==
    /\ events < MaxEvents
    /\ s # scroll
    /\ scroll' = s
    /\ Dispatch("scroll", win, s, pointer, media, "none")
    /\ events' = events + 1
    /\ UNCHANGED <<win, pointer, media, listeners, otherThanEvents>>

MouseMove(p) ==
    /\ events < MaxEvents
    /\ p # pointer
    /\ pointer' = p
    /\ Dispatch("mousemove", win, scroll, p, media, "none")
    /\ events' = events + 1
    /\ UNCHANGED <<win, scroll, media, listeners, otherThanEvents>>

MediaChange(q) ==
    /\ events < MaxEvents
    /\ media' = [media EXCEPT ![q] = ~@]
    /\ Dispatch(ChangeOf(q), win, scroll, pointer, media', "none")
    /\ events' = events + 1
    /\ UNCHANGED <<win, scroll, pointer, listeners, otherThanEvents>>

Click(target) ==
    /\ events < MaxEvents
    /\ Dispatch("click", win, scroll, pointer, media, target)
    /\ events' = events + 1
    /\ UNCHANGED <<win, scroll, pointer, media, listeners, otherThanEvents>>

InitEvents == EventsIdle /\ StorageIdle /\ CopyIdle /\ GeoIdle /\ PrevIdle /\ BoolIdle

NextEvents ==
    \/ \E kind \in EventHooks, q \in Queries, hasRef \in BOOLEAN, cb \in Callbacks :
          Acquire(kind, q, hasRef, cb)
    \/ MountEffect
    \/ RenderEv
    \/ \E cb \in Callbacks : Rerender(cb)
    \/ Release
    \/ \E q \in Queries : MediaChange(q)
    \/ \E w \in WinSizes : Resize(w)
    \/ \E s \in Scrolls : Scroll(s)
    \/ \E p \in Pointers : MouseMove(p)
    \/ \E target \in ClickTargets : Click(target)

SpecEvents == InitEvents /\ [][NextEvents]_vars

\* The event hooks when cleanups run more than once and event sources lose
\* their listeners.
MaxAgain == 2

\* The cleanup of the mount effect is run once more on a released instance.
ReleaseAgain ==
    /\ ev.phase = "released"
    /\ ev.again < MaxAgain
    /\ listeners' = Cleanup(ev, listeners)
    /\ ev' = [ev EXCEPT !.again = @ + 1]
    /\ UNCHANGED <<win, scroll, pointer, media, fired, events, otherThanEvents>>

\* The event source src is torn down: its listeners are gone.
TearDown(src) ==
    /\ listeners[src] > 0
    /\ listeners' = [listeners EXCEPT ![src] = 0]
    /\ ev' = [ev EXCEPT !.torn = TRUE]
    /\ UNCHANGED <<win, scroll, pointer, media, fired, events, otherThanEvents>>

NextTeardown ==
    \/ \E kind \in EventHooks, q \in Queries, hasRef \in BOOLEAN, cb \in Callbacks :
          Acquire(kind, q, hasRef, cb)
    \/ MountEffect
    \/ RenderEv
    \/ Release
    \/ ReleaseAgain
    \/ \E src \in Sources : TearDown(src)
    \/ \E q \in Queries : MediaChange(q)
    \/ \E s \in Scrolls : Scroll(s)
    \/ \E target \in ClickTargets : Click(target)

SpecTeardown == InitEvents /\ [][NextTeardown]_vars

-----------------------------------------------------------------------------
(* Properties of the event hooks                                           *)

NoListeners == [s \in Sources |-> 0]

\* C5: a listener-registering hook whose mount effect has run and that is not
\* released has exactly one listener, on its own event source, whatever
\* re-renders happened; a released instance has none.
C5_ListenerAccounting ==
    /\ (ev.phase = "mounted" /\ ev.kind \in ListenerHooks)
          => listeners = [s \in Sources |->
                            IF s = SourceOf(ev.kind, ev.query) THEN 1 ELSE 0]
    /\ ev.phase = "released" => listeners = NoListeners

C5_Witness ==
    /\ ev.phase = "released"
    /\ ev.kind = "useMediaQuery"
    /\ ev.renders > 0
    /\ events > 0

\* C18: running the cleanup of an instance once more, or after its event
\* source lost the listener, removes nothing that is not registered and
\* fails nowhere: no count goes below zero, and a released instance has no
\* listener before and after every further cleanup.
C18_CleanupIdempotent ==
    /\ \A s \in Sources : listeners[s] >= 0
    /\ ev.phase = "released" => listeners = NoListeners

C18_Witness ==
    /\ ev.phase = "released"
    /\ ev.kind = "useWindowScroll"
    /\ ev.torn
    /\ ev.again = 2
    /\ listeners = NoListeners

FiredTotal == fired["c1"] + fired["c2"]

\* C19: useClickAway invokes a callback once for every click, made while the
\* instance is mounted, whose target is outside the element of a set ref,
\* and for no other click; useClickAnywhere invokes one once for every click
\* made while the instance is mounted.
C19_ClickCallbacks ==
    ev.kind \in {"useClickAway", "useClickAnywhere"} => FiredTotal = ev.due

C19_Witness ==
    /\ ev.kind = "useClickAway"
    /\ ev.hasRef
    /\ ev.phase = "mounted"
    /\ ev.clicks = 2
    /\ ev.due = 1
    /\ FiredTotal = 1

\* C27: an action hook invokes only the callback passed at the first
\* render, also for the events that follow a re-render with another callback.
C27_FirstCallbackBound ==
    ev.kind \in ActionHooks
        => \A c \in Callbacks : fired[c] > 0 => c = ev.bound

C27_Witness ==
    /\ ev.kind = "useWindowResize"
    /\ ev.phase = "mounted"
    /\ ev.bound = "c1"
    /\ ev.cb = "c2"
    /\ ev.stale > 0
    /\ fired["c1"] = 2
    /\ fired["c2"] = 0

\* C9 as stated: once the instance is mounted and its updates are rendered,
\* the snapshot is the source's value at the last notification that occurred
\* since the first render.
C9_SnapshotNeverStale ==
    (ev.phase = "mounted" /\ ev.kind \in StateHooks \ {"useDarkMode"}
        /\ ev.queue = <<>> /\ ev.lastNote # <<>>)
        => ev.state = ev.lastNote[1]

\* C10 as stated: the value returned by the first render of a state hook is
\* the value its source has at that moment.
C10_FirstRenderIsCurrentValue ==
    (ev.phase # "unmounted" /\ ev.kind \in StateHooks) => ev.first = ev.atAcq

-----------------------------------------------------------------------------
(* useGeolocation()                                                        *)

otherThanGeo == <<storageVars, copyVars, eventVars, prevVars, boolVars>>

MaxGeoRenders == 4

\* What navigator.geolocation answers a request with.
Positions == {"position 1", "position 2"}
PositionErrors == {"PERMISSION_DENIED", "POSITION_UNAVAILABLE", "TIMEOUT"}

\* Mutants: the capability test is missing; the effect depends on the state.
UnsupportedNever(n) == FALSE
GeoEffectDepsState(g) == <<g.state>>

\* The capability test of the effect: !navigator.geolocation.
Unsupported(n) == ~n.geolocation

\* The dependency list of the effect: [].
GeoEffectDeps(g) == <<>>

\* What the effect does: it reports the missing capability through the
\* state, or it calls getCurrentPosition (a TypeError when
\* navigator.geolocation is undefined).
GeoEffect(n) ==
    CASE Unsupported(n)  -> "unsupported"
      [] ~n.geolocation  -> "threw"
      [] OTHER           -> "request"

\* First render of a component that calls useGeolocation().
MountGeo ==
    /\ geo.phase = "unmounted"
    /\ LET g == [NoGeo EXCEPT !.phase = "mounted", !.effect = TRUE]
       IN  geo' = [g EXCEPT !.deps = GeoEffectDeps(g)]
    /\ UNCHANGED <<nav, pending, otherThanGeo>>

\* The passive effect of the last render runs.
RunGeoEffect ==
    /\ geo.phase = "mounted"
    /\ geo.effect
    /\ LET g == [geo EXCEPT !.effect = FALSE, !.effectDone = TRUE]
       IN  CASE GeoEffect(nav) = "unsupported" ->
                  /\ geo' = [g EXCEPT !.queue = Append(@, GeoUnsupported)]
                  /\ UNCHANGED pending
             [] GeoEffect(nav) = "threw" ->
                  /\ geo' = [g EXCEPT !.phase = "crashed"]
                  /\ UNCHANGED pending
             [] OTHER ->
                  /\ geo' = [g EXCEPT !.requests = @ + 1]
                  /\ pending' = pending + 1
    /\ UNCHANGED <<nav, otherThanGeo>>

\* A render of the mounted component: the queued setState calls are applied
\* (each sets a new object, so the last one is the state), and the effect
\* runs again only if its dependencies changed.
RenderedGeo(g, rerendered) ==
    LET new == IF g.queue = <<>> THEN g.state ELSE g.queue[Len(g.queue)]
        g1  == [g EXCEPT !.state = new, !.queue = <<>>,
                         !.renders = IF rerendered THEN @ + 1 ELSE @,
                         !.settled = @ \/ ~new.loading]
    IN  [g1 EXCEPT !.effect = (GeoEffectDeps(g1) # g.deps), !.deps = GeoEffectDeps(g1)]

\* Re-render caused by queued setState calls.
RenderGeo ==
    /\ geo.phase = "mounted"
    /\ geo.queue # <<>>
    /\ ~geo.effect
    /\ geo' = RenderedGeo(geo, FALSE)
    /\ UNCHANGED <<nav, pending, otherThanGeo>>

\* The parent re-renders the component.
RerenderGeo ==
    /\ geo.phase = "mounted"
    /\ ~geo.effect
    /\ geo.renders < MaxGeoRenders
    /\ geo' = RenderedGeo(geo, TRUE)
    /\ UNCHANGED <<nav, pending, otherThanGeo>>

\* A pending request is answered: exactly one of its two callbacks is
\* called, once.  On a released instance React drops the update.
Answer(state) ==
    /\ pending > 0
    /\ pending' = pending - 1
    /\ geo' = IF geo.phase = "mounted" THEN [geo EXCEPT !.queue = Append(@, state)]
              ELSE [geo EXCEPT !.late = @ + 1]
    /\ UNCHANGED <<nav, otherThanGeo>>

\* The success callback: (position) => setState({loading: false, error: null, data: position}).
Resolve(position) == Answer(GeoResolved(position))

\* The error callback: (error) => setState({loading: false, error, data: null}).
Reject(error) == Answer(GeoRejected(error))

\* The component is unmounted (or discarded after its effect threw): the
\* effect returned no cleanup, a pending request stays pending.
UnmountGeo ==
    /\ geo.phase \in {"mounted", "crashed"}
    /\ ~geo.effect
    /\ geo' = [geo EXCEPT !.phase = "released", !.queue = <<>>]
    /\ UNCHANGED <<nav, pending, otherThanGeo>>

InitGeo ==
    /\ nav \in {[geolocation |-> TRUE], [geolocation |-> FALSE]}
    /\ geo = NoGeo
    /\ pending = 0
    /\ StorageIdle /\ CopyIdle /\ EventsIdle /\ PrevIdle /\ BoolIdle

NextGeo ==
    \/ MountGeo
    \/ RunGeoEffect
    \/ RenderGeo
    \/ RerenderGeo
    \/ \E position \in Positions : Resolve(position)
    \/ \E error \in PositionErrors : Reject(error)
    \/ UnmountGeo

SpecGeo == InitGeo /\ [][NextGeo]_vars

-----------------------------------------------------------------------------
(* Properties of useGeolocation                                            *)

\* C14: without the geolocation capability the hook throws nothing and
\* requests no position; once its mount effect has run and the update is
\* rendered, its state is {loading: false, error: set, data: null}, and it
\* stays so as long as the instance lives.
C14_UnsupportedIsReported ==
    ~nav.geolocation
        => /\ geo.phase # "crashed"
           /\ geo.requests = 0 /\ pending = 0
           /\ (geo.phase = "mounted" /\ geo.effectDone /\ geo.queue = <<>>)
                => (geo.state = GeoUnsupported /\ geo.state.error # "null")

C14_Witness ==
    /\ ~nav.geolocation
    /\ geo.phase = "mounted"
    /\ geo.state = GeoUnsupported
    /\ geo.renders > 0

\* The shape of a state: loading with nothing else set, or settled with
\* exactly one of error and data set.
WellFormed(s) ==
    IF s.loading THEN s.error = "null" /\ s.data = "null"
    ELSE (s.error = "null") # (s.data = "null")

\* C15: the hook starts with {loading: true, error: null, data: null}; an
\* instance requests the position at most once, and exactly once when its
\* mount effect has run with the capability present, whatever re-renders
\* and answers follow; every state is loading with nothing set or settled
\* with exactly one of error and data; a settled state never loads again.
C15_OneShotMachine ==
    geo.phase = "mounted"
        => /\ ~geo.effectDone => geo.state = GeoLoading
           /\ geo.requests <= 1
           /\ (nav.geolocation /\ geo.effectDone) => geo.requests = 1
           /\ WellFormed(geo.state)
           /\ geo.settled => ~geo.state.loading

C15_Witness ==
    /\ nav.geolocation
    /\ geo.phase = "mounted"
    /\ geo.state = GeoRejected("TIMEOUT")
    /\ geo.renders = 2
    /\ geo.requests = 1
    /\ pending = 0

-----------------------------------------------------------------------------
(* usePrevious(value)                                                      *)

otherThanPrev == <<storageVars, copyVars, eventVars, geoVars, boolVars>>

MaxPrevRenders == 4

\* The values the component passes.
PrevArgs == {Undefined, Num("0"), Str("dark")}

\* Mutant: the effect is declared with deps [].
PrevEffectDepsNone(v) == <<>>

\* The dependency list of the effect: [value].
PrevEffectDeps(v) == <<v>>

\* A render of the component with usePrevious(v): the hook returns
\* ref.current as it is during the render; the effect is scheduled after the
\* first render and after a render whose deps differ (Object.is).
RenderPrev(v) ==
    /\ prev.phase \in {"unmounted", "mounted"}
    /\ ~prev.effect
    /\ Len(prev.args) < MaxPrevRenders
    /\ prev' = [prev EXCEPT !.phase = "mounted", !.arg = v, !.returned = prev.ref,
                            !.effect = (prev.phase = "unmounted"
                                            \/ PrevEffectDeps(v) # prev.deps),
                            !.deps = PrevEffectDeps(v),
                            !.args = Append(@, v)]
    /\ UNCHANGED otherThanPrev

\* The passive effect of the last render runs: ref.current = value.
RunPrevEffect ==
    /\ prev.phase = "mounted"
    /\ prev.effect
    /\ prev' = [prev EXCEPT !.ref = prev.arg, !.effect = FALSE]
    /\ UNCHANGED otherThanPrev

\* The component is unmounted.
UnmountPrev ==
    /\ prev.phase = "mounted"
    /\ ~prev.effect
    /\ prev' = [prev EXCEPT !.phase = "released"]
    /\ UNCHANGED otherThanPrev

InitPrev == PrevIdle /\ StorageIdle /\ CopyIdle /\ EventsIdle /\ GeoIdle /\ BoolIdle

NextPrev ==
    \/ \E v \in PrevArgs : RenderPrev(v)
    \/ RunPrevEffect
    \/ UnmountPrev

SpecPrev == InitPrev /\ [][NextPrev]_vars

\* C20: the first render returns undefined, and render n (n >= 2) returns
\* the argument of render n - 1, also when consecutive renders pass the same
\* value.
C20_ReturnsPreviousArgument ==
    prev.phase = "mounted"
        => prev.returned = IF Len(prev.args) = 1 THEN Undefined
                           ELSE prev.args[Len(prev.args) - 1]

C20_Witness ==
    /\ prev.phase = "mounted"
    /\ prev.args = <<Str("dark"), Num("0"), Num("0")>>
    /\ prev.returned = Num("0")

-----------------------------------------------------------------------------
(* useBoolean(initialValue) and the functions returned by useDarkMode().   *)
(* A queued update is a value (setValue(true)) or an updater function      *)
(* (setValue((v) => !v)); a render applies the queued updates in order.    *)

otherThanBool == <<storageVars, copyVars, geoVars, prevVars>>

MaxBoolOps == 3

BoolHooks == {"useBoolean", "useDarkMode"}

\* The functions the hooks return.
BooleanOps == {"setValue", "setTrue", "setFalse", "toggle"}
DarkOps == {"toogle", "enable", "disable"}

\* What a component passes to useBoolean: <<>> when the argument is omitted.
BoolArgs == {<<>>, <<TRUE>>, <<FALSE>>}

Const(b) == [fn |-> "const", v |-> b]
Not == [fn |-> "not", v |-> FALSE]

\* Mutants: toggle sets the negation of the value of the last render;
\* enable and disable are swapped.
BooleanUpdateStale(op, b, rendered) ==
    CASE op = "setValue" -> Const(b)
      [] op = "setTrue"  -> Const(TRUE)
      [] op = "setFalse" -> Const(FALSE)
      [] op = "toggle"   -> Const(~rendered)
DarkUpdateSwapped(op, rendered) ==
    CASE op = "toogle"   -> Not
      [] op = "enable"   -> Const(FALSE)
      [] op = "disable"  -> Const(TRUE)

\* The default parameter of useBoolean: initialValue = false.
InitialBoolean(arg) == IF arg = <<>> THEN FALSE ELSE arg[1]

\* The update each function of useBoolean queues, called with b while the
\* last render shows the value rendered.
BooleanUpdate(op, b, rendered) ==
    CASE op = "setValue" -> Const(b)
      [] op = "setTrue"  -> Const(TRUE)
      [] op = "setFalse" -> Const(FALSE)
      [] op = "toggle"   -> Not

\* The update each function of useDarkMode queues.
DarkUpdate(op, rendered) ==
    CASE op = "toogle"   -> Not
      [] op = "enable"   -> Const(TRUE)
      [] op = "disable"  -> Const(FALSE)

\* How useState applies the queued updates to the state, in order.
ApplyUpdate(s, u) == IF u.fn = "not" THEN ~s ELSE u.v

RECURSIVE Reduce(_, _)
Reduce(s, q) == IF q = <<>> THEN s ELSE Reduce(ApplyUpdate(s, Head(q)), Tail(q))

\* History: the value the operation is to leave, e being the value the
\* operations so far are to leave.
Expect(op, b, e) ==
    CASE op = "setValue"             -> b
      [] op \in {"setTrue", "enable"}   -> TRUE
      [] op \in {"setFalse", "disable"} -> FALSE
      [] op \in {"toggle", "toogle"}    -> ~e

\* First render of a component that calls useBoolean(arg) or useDarkMode().
MountBool(kind, arg) ==
    /\ bool.phase = "unmounted"
    /\ kind = "useDarkMode" => arg = <<>>
    /\ LET v == IF kind = "useBoolean" THEN InitialBoolean(arg) ELSE FALSE
       IN  bool' = [NoBool EXCEPT !.kind = kind, !.phase = "mounted", !.arg = arg,
                                  !.value = v, !.expected = v,
                                  !.effect = (kind = "useDarkMode")]
    /\ UNCHANGED <<eventVars, otherThanBool>>

\* The mount effect of useDarkMode: setIsDarkMode(matchMedia(...).matches).
RunBoolEffect ==
    /\ bool.phase = "mounted"
    /\ bool.effect
    /\ bool' = [bool EXCEPT !.effect = FALSE,
                            !.queue = Append(@, Const(media[DarkQuery])),
                            !.read = <<media[DarkQuery]>>,
                            !.expected = media[DarkQuery]]
    /\ UNCHANGED <<eventVars, otherThanBool>>

\* The component calls one of the returned functions (b is the argument of
\* setValue).
BoolOp(op, b) ==
    /\ bool.phase = "mounted"
    /\ ~bool.effect
    /\ bool.nops < MaxBoolOps
    /\ IF bool.kind = "useBoolean" THEN op \in BooleanOps ELSE op \in DarkOps
    /\ op # "setValue" => b = TRUE
    /\ LET u == IF bool.kind = "useBoolean" THEN BooleanUpdate(op, b, bool.value)
                ELSE DarkUpdate(op, bool.value)
       IN  bool' = [bool EXCEPT !.queue = Append(@, u), !.nops = @ + 1,
                                !.expected = Expect(op, b, @)]
    /\ UNCHANGED <<eventVars, otherThanBool>>

\* Re-render caused by the queued updates.
RenderBool ==
    /\ bool.phase = "mounted"
    /\ ~bool.effect
    /\ bool.queue # <<>>
    /\ bool' = [bool EXCEPT !.value = Reduce(bool.value, bool.queue), !.queue = <<>>]
    /\ UNCHANGED <<eventVars, otherThanBool>>

\* The component is unmounted.
UnmountBool ==
    /\ bool.phase = "mounted"
    /\ ~bool.effect
    /\ bool' = [bool EXCEPT !.phase = "released", !.queue = <<>>]
    /\ UNCHANGED <<eventVars, otherThanBool>>

InitBool == BoolIdle /\ StorageIdle /\ CopyIdle /\ EventsIdle /\ GeoIdle /\ PrevIdle

\* MediaChange: the system color-scheme preference (or another media query)
\* changes while the instance lives.
NextBool ==
    \/ \E kind \in BoolHooks, arg \in BoolArgs : MountBool(kind, arg)
    \/ RunBoolEffect
    \/ \E op \in BooleanOps \cup DarkOps, b \in BOOLEAN : BoolOp(op, b)
    \/ RenderBool
    \/ UnmountBool
    \/ \E q \in Queries : MediaChange(q)

SpecBool == InitBool /\ [][NextBool]_vars

\* C21: useBoolean starts with initialValue (false when omitted); whatever
\* operations were issued, rendered or still queued, the value after the
\* next render is the one the operations leave in turn: true after setTrue,
\* false after setFalse, b after setValue(b), the negation after toggle.
C21_BooleanAlgebra ==
    (bool.kind = "useBoolean" /\ bool.phase = "mounted")
        => /\ bool.nops = 0 => bool.value = (IF bool.arg = <<>> THEN FALSE ELSE bool.arg[1])
           /\ Reduce(bool.value, bool.queue) = bool.expected

C21_Witness ==
    /\ bool.kind = "useBoolean"
    /\ bool.phase = "mounted"
    /\ bool.arg = <<TRUE>>
    /\ bool.queue = <<Not, Not>>
    /\ bool.nops = 3
    /\ bool.value = FALSE
    /\ bool.expected = FALSE

\* C22: after the mount-time read of the preference, isDarkMode is what the
\* read and the calls of enable, disable and toogle since then leave; a
\* change of the preference changes nothing, no listener being registered.
C22_DarkModeOnlyByFunctions ==
    (bool.kind = "useDarkMode" /\ bool.phase = "mounted" /\ bool.read # <<>>)
        => /\ Reduce(bool.value, bool.queue) = bool.expected
           /\ bool.nops = 0 => bool.expected = bool.read[1]
           /\ listeners = [s \in Sources |-> 0]

C22_Witness ==
    /\ bool.kind = "useDarkMode"
    /\ bool.phase = "mounted"
    /\ bool.read = <<TRUE>>
    /\ bool.queue = <<>>
    /\ bool.nops = 0
    /\ bool.value = TRUE
    /\ ~media[DarkQuery]

====
